---------------------------- MODULE Spec2Model ----------------------------
(***************************************************************************)
(* A model of gptme's conversation log (gptme/logmanager.py) and of its    *)
(* conversation loop (gptme/chat.py).                                      *)
(*                                                                         *)
(* These specifications share the variables of the module:                *)
(*   SpecLog    the LogManager operations on a small file system;          *)
(*   SpecRT     write_log followed by LogManager.load (the round trip);    *)
(*   SpecCrash  LogManager.append with the steps of write_log opened up,   *)
(*              and a crash of the process at any of them;                 *)
(*   SpecChat   chat() and step(), with cancellation delivery;             *)
(*   SpecRestart  chat() run again and again on the same conversation;     *)
(*   SpecLimit  limit_log applied to a message sequence;                   *)
(*   SpecInclude  _include_paths applied to a user message.                *)
(***************************************************************************)
EXTENDS Integers, Sequences, FiniteSets, TLC

VARIABLES
    \* ---- LogManager (logmanager.py) ----
    have,       \* TRUE when a LogManager object exists
    log,        \* LogManager.log: the in-memory sequence of Messages
    logfile,    \* LogManager.logfile: the path of the backing file
    fs,         \* the file system: path -> text of the file, or NoFile
    notice,     \* what the last operation printed ("" when nothing)
    err,        \* the exception the last operation raised ("" when none)
    lastOp,     \* the last operation, with its arguments (history)
    prevLog,    \* log before the last operation (history)
    prevFs,     \* fs before the last operation (history)
    prevFile,   \* logfile before the last operation (history)
    nops,       \* the number of operations so far (bounded by MaxOps)
    \* ---- write_log opened up (SpecCrash) ----
    wpc,        \* "idle", "writing" (inside write_log's with-block), "crashed"
    widx,       \* the number of records write_log has written so far
    \* ---- the round trip (SpecRT) ----
    rtpc,       \* "start", "written", "loaded"
    written,    \* the sequence handed to write_log
    initial,    \* the initial_msgs handed to load
    \* ---- chat() and step() (chat.py) ----
    pc,         \* where the loop is: see the actions below
    mode,       \* "s": the step runs under list() in the scripted loop; "i": under the for-loop
    queue,      \* prompt_msgs
    interactive,\* the interactive argument of chat
    armed,      \* the interrupt flag (set_interruptible / clear_interruptible)
    resp,       \* scripted: the messages list(step(...)) has collected so far
    pend,       \* interactive: the message step has yielded and chat has yet to append
    yfrom,      \* interactive: the yield the generator is suspended at
    cur,        \* msg_response of the running step
    nres,       \* the number of messages execute_msg has yielded in this step
    h,          \* history of the running cycle and step, for the properties
    \* ---- a function applied to an input (limit_log, _include_paths) ----
    fnpc,       \* "off", "start", "done"
    fnIn,       \* the input: a message sequence, or a message
    fnEnv,      \* what else the function reads: the budget, or the files and URLs
    fnOut       \* what the function returned or raised

logVars == <<have, log, logfile, fs, notice, err, lastOp, prevLog, prevFs, prevFile, nops>>
crashVars == <<wpc, widx>>
rtVars == <<rtpc, written, initial>>
chatVars == <<pc, mode, queue, interactive, armed, resp, pend, yfrom, cur, nres, h>>
fnVars == <<fnpc, fnIn, fnEnv, fnOut>>

-----------------------------------------------------------------------------
(* Bounds of the model. *)

MaxLog == 3         \* append is not called on a log of this length
MaxOps == 5         \* the number of LogManager operations in a behaviour
MaxUndo == 2        \* the largest n passed to undo(n)
MaxRTLen == 2       \* the longest sequence of the round trip

-----------------------------------------------------------------------------
(* Messages.  content is a sequence of characters; a few multi-character   *)
(* words the code compares against are one element each.                   *)

NL == "\n"          \* the newline character
BS == "\\"          \* the backslash character
QT == "\""          \* the double quote character

Roles == {"system", "user", "assistant"}

Msg(r, c, p) == [role |-> r, content |-> c, pinned |-> p]

Last(s) == s[Len(s)]
Front(s) == SubSeq(s, 1, Len(s) - 1)

\* str.startswith(".undo")  (logmanager.py, undo)
StartsWithUndo(c) == Len(c) >= 1 /\ c[1] = ".undo"

-----------------------------------------------------------------------------
(* The file format: one JSON object per line.  Message.to_dict and         *)
(* the Message constructor are not among the sources at hand; json.dumps   *)
(* writes a                                                                *)
(* string with its newlines, quotes and backslashes escaped, and           *)
(* json.loads undoes that.                                                 *)

BadText == <<"<bad>">>
BadMsg == [role |-> "<bad>", content |-> <<>>, pinned |-> FALSE]

RECURSIVE Escape(_)
Escape(c) ==
    IF c = <<>> THEN <<>>
    ELSE (CASE Head(c) = NL -> <<BS, "n">>
            [] Head(c) = BS -> <<BS, BS>>
            [] Head(c) = QT -> <<BS, QT>>
            [] OTHER -> <<Head(c)>>) \o Escape(Tail(c))

\* BadText when the text is not the inside of a JSON string
RECURSIVE Unescape(_)
Unescape(t) ==
    IF t = <<>> THEN <<>>
    ELSE IF Head(t) = BS
         THEN IF Len(t) < 2 \/ t[2] \notin {"n", BS, QT} THEN BadText
              ELSE LET rest == Unescape(Tail(Tail(t)))
                       ch == CASE t[2] = "n" -> NL
                               [] t[2] = BS -> BS
                               [] OTHER -> QT
                   IN IF rest = BadText THEN BadText ELSE <<ch>> \o rest
         ELSE IF Head(t) \in {QT, NL} THEN BadText
              ELSE LET rest == Unescape(Tail(t))
                   IN IF rest = BadText THEN BadText ELSE <<Head(t)>> \o rest

PinTag(p) == IF p THEN "pinned:true" ELSE "pinned:false"

\* json.dumps(msg.to_dict()): the record of one message, without the newline
to_dict_dumps(m) ==
    <<"{", m.role, PinTag(m.pinned), QT>> \o Escape(m.content) \o <<QT, "}">>

\* json.loads(line) made a Message: BadMsg when the line is no complete record
loads_Message(line) ==
    LET l == IF line # <<>> /\ Last(line) = NL THEN Front(line) ELSE line
    IN IF /\ Len(l) >= 6
          /\ l[1] = "{"
          /\ l[2] \in Roles
          /\ l[3] \in {"pinned:true", "pinned:false"}
          /\ l[4] = QT
          /\ l[Len(l) - 1] = QT
          /\ l[Len(l)] = "}"
       THEN LET c == Unescape(SubSeq(l, 5, Len(l) - 2))
            IN IF c = BadText THEN BadMsg ELSE Msg(l[2], c, l[3] = "pinned:true")
       ELSE BadMsg

\* file.readlines(): the text cut after each newline
RECURSIVE readlines(_)
readlines(text) ==
    IF text = <<>> THEN <<>>
    ELSE LET RECURSIVE FirstNL(_)
             FirstNL(i) == IF i > Len(text) THEN Len(text)
                           ELSE IF text[i] = NL THEN i ELSE FirstNL(i + 1)
             k == FirstNL(1)
         IN <<SubSeq(text, 1, k)>> \o readlines(SubSeq(text, k + 1, Len(text)))

\* the text write_log writes for a list of messages, record by record
RECURSIVE LogText(_)
LogText(msgs) ==
    IF msgs = <<>> THEN <<>>
    ELSE to_dict_dumps(Head(msgs)) \o <<NL>> \o LogText(Tail(msgs))

-----------------------------------------------------------------------------
(* The file system.  A path is a tuple of its parts.                       *)

NoFile == <<"<no file>">>
NoPath == <<>>

Locations == {"c1", "f1.log"}     \* what callers pass to load
ForkNames == {"f1", "f2"}         \* what callers pass to fork and rename

\* Path(logfile), relative to the working directory
Lit(loc) == <<"cwd", loc>>
\* LOGSDIR / logfile / "conversation.jsonl"
Conv(loc) == <<"LOGSDIR", loc, "conversation.jsonl">>
\* self.logfile.parent / f"{name}.log"
Sibling(path, name) ==
    Front(path) \o <<CASE name = "f1" -> "f1.log" [] name = "f2" -> "f2.log">>

AllPaths ==
    LET base == {Lit(l) : l \in Locations} \cup {Conv(l) : l \in Locations}
    IN base \cup {Sibling(p, n) : p \in base, n \in ForkNames}

\* Path.exists()
exists(f, path) == f[path] # NoFile

\* the messages of the model
U1 == Msg("user", <<"a">>, FALSE)
A1 == Msg("assistant", <<"b", NL, QT>>, FALSE)
S1 == Msg("system", <<"s">>, TRUE)
UndoCmd == Msg("user", <<".undo">>, FALSE)

AppendMsgs == {U1, A1, UndoCmd}
InitialMsgs == {<<>>, <<S1>>}
FileSamples == {<<>>, <<U1>>, <<U1, A1>>}

-----------------------------------------------------------------------------
(* logmanager.py *)

\* a plausible slip in write_log: the file is opened with "a" instead of "w"
write_log_mode_a(msgs, path, f) ==
    [f EXCEPT ![path] = (IF exists(f, path) THEN f[path] ELSE <<>>) \o LogText(msgs)]

\* write_log(log, logfile) with a list: open(logfile, "w"), one record per message
write_log(msgs, path, f) == [f EXCEPT ![path] = LogText(msgs)]

\* [Message(json.loads(line)) for line in file.readlines()]
read_msgs(text) ==
    LET lines == readlines(text)
    IN [i \in 1..Len(lines) |-> loads_Message(lines[i])]

\* a plausible slip in load: the conventional location is tried first
load_path_conv_first(loc, f) == IF exists(f, Conv(loc)) THEN Conv(loc) ELSE Lit(loc)

\* LogManager.load: the path it settles on
load_path(loc, f) == IF ~exists(f, Lit(loc)) THEN Conv(loc) ELSE Lit(loc)

\* a plausible slip in load: the initial messages are put in front of the
\* persisted ones
load_prepends_initial(loc, initial_msgs, f) ==
    LET path == load_path(loc, f)
    IN IF ~exists(f, path)
       THEN [ok |-> FALSE, log |-> <<>>, logfile |-> NoPath, err |-> "FileNotFoundError"]
       ELSE LET msgs == read_msgs(f[path])
            IN IF \E i \in 1..Len(msgs) : msgs[i] = BadMsg
               THEN [ok |-> FALSE, log |-> <<>>, logfile |-> NoPath, err |-> "JSONDecodeError"]
               ELSE [ok |-> TRUE, log |-> initial_msgs \o msgs, logfile |-> path, err |-> ""]

\* LogManager.load: [ok, log, logfile, err]
load(loc, initial_msgs, f) ==
    LET path == load_path(loc, f)
    IN IF ~exists(f, path)
       THEN [ok |-> FALSE, log |-> <<>>, logfile |-> NoPath, err |-> "FileNotFoundError"]
       ELSE LET msgs == read_msgs(f[path])
            IN IF \E i \in 1..Len(msgs) : msgs[i] = BadMsg
               THEN [ok |-> FALSE, log |-> <<>>, logfile |-> NoPath, err |-> "JSONDecodeError"]
               ELSE [ok |-> TRUE,
                     log |-> IF msgs = <<>> THEN initial_msgs ELSE msgs,
                     logfile |-> path, err |-> ""]

\* the for-loop of undo: n times self.pop(); list.pop raises IndexError on []
RECURSIVE pop_n(_, _)
pop_n(l, n) ==
    IF n = 0 THEN [log |-> l, err |-> ""]
    ELSE IF l = <<>> THEN [log |-> l, err |-> "IndexError"]
    ELSE pop_n(Front(l), n - 1)

\* a plausible slip in undo: range(n + 1)
undo_one_more(l, n) ==
    LET l1 == IF l # <<>> /\ StartsWithUndo(Last(l).content) THEN Front(l) ELSE l
    IN IF l1 = <<>>
       THEN [log |-> l1, notice |-> "Nothing to undo.", err |-> ""]
       ELSE LET r == pop_n(l1, n + 1)
            IN [log |-> r.log, notice |-> "Undoing messages:", err |-> r.err]

\* a plausible slip in undo: the undo command at the tail is not discarded
undo_keeps_sentinel(l, n) ==
    IF l = <<>>
    THEN [log |-> l, notice |-> "Nothing to undo.", err |-> ""]
    ELSE LET r == pop_n(l, n)
         IN [log |-> r.log, notice |-> "Undoing messages:", err |-> r.err]

\* LogManager.undo: [log, notice, err]
undo(l, n) ==
    LET l1 == IF l # <<>> /\ StartsWithUndo(Last(l).content) THEN Front(l) ELSE l
    IN IF l1 = <<>>
       THEN [log |-> l1, notice |-> "Nothing to undo.", err |-> ""]
       ELSE LET r == pop_n(l1, n)
            IN [log |-> r.log, notice |-> "Undoing messages:", err |-> r.err]

Op(o, loc, n, name, init) == [op |-> o, loc |-> loc, n |-> n, name |-> name, init |-> init]
NoOp == Op("none", "", 0, "", <<>>)

History(o) ==
    /\ lastOp' = o
    /\ prevLog' = log
    /\ prevFs' = fs
    /\ prevFile' = logfile
    /\ nops' = nops + 1

\* LogManager.load(logfile, initial_msgs)
Load(loc, init) ==
    /\ nops < MaxOps
    /\ LET r == load(loc, init, fs)
       IN /\ have' = r.ok
          /\ log' = r.log
          /\ logfile' = r.logfile
          /\ err' = r.err
    /\ notice' = ""
    /\ fs' = fs
    /\ History(Op("load", loc, 0, "", init))
    /\ UNCHANGED <<crashVars, rtVars, fnVars, chatVars>>

\* LogManager.append(msg): self.log.append(msg); self.write(); print_msg
LogAppend(m) ==
    /\ nops < MaxOps
    /\ have
    /\ Len(log) < MaxLog
    /\ log' = Append(log, m)
    /\ fs' = write_log(log', logfile, fs)
    /\ notice' = "msg"
    /\ err' = ""
    /\ History(Op("append", "", 0, "", <<>>))
    /\ UNCHANGED <<have, logfile>>
    /\ UNCHANGED <<crashVars, rtVars, fnVars, chatVars>>

\* a plausible slip in LogManager.undo: the log is written after the pops
Undo_writes(n) ==
    /\ nops < MaxOps
    /\ have
    /\ LET r == undo(log, n)
       IN /\ log' = r.log
          /\ notice' = r.notice
          /\ err' = r.err
    /\ fs' = write_log(log', logfile, fs)
    /\ History(Op("undo", "", n, "", <<>>))
    /\ UNCHANGED <<have, logfile>>
    /\ UNCHANGED <<crashVars, rtVars, fnVars, chatVars>>

\* LogManager.undo(n)
Undo(n) ==
    /\ nops < MaxOps
    /\ have
    /\ LET r == undo(log, n)
       IN /\ log' = r.log
          /\ notice' = r.notice
          /\ err' = r.err
    /\ History(Op("undo", "", n, "", <<>>))
    /\ UNCHANGED <<have, logfile, fs>>
    /\ UNCHANGED <<crashVars, rtVars, fnVars, chatVars>>

\* LogManager.write()
Write ==
    /\ nops < MaxOps
    /\ have
    /\ fs' = write_log(log, logfile, fs)
    /\ notice' = ""
    /\ err' = ""
    /\ History(Op("write", "", 0, "", <<>>))
    /\ UNCHANGED <<have, log, logfile>>
    /\ UNCHANGED <<crashVars, rtVars, fnVars, chatVars>>

\* LogManager.fork(name): self.write(), then the pointer moves
fork(name, l, path, f) ==
    [fs |-> write_log(l, path, f), logfile |-> Sibling(path, name)]

Fork(name) ==
    /\ nops < MaxOps
    /\ have
    /\ LET r == fork(name, log, logfile, fs)
       IN /\ fs' = r.fs
          /\ logfile' = r.logfile
    /\ notice' = ""
    /\ err' = ""
    /\ History(Op("fork", "", 0, name, <<>>))
    /\ UNCHANGED <<have, log>>
    /\ UNCHANGED <<crashVars, rtVars, fnVars, chatVars>>

\* LogManager.rename(name): Path.rename raises when the file is not there
Rename(name) ==
    /\ nops < MaxOps
    /\ have
    /\ IF exists(fs, logfile)
       THEN /\ fs' = [fs EXCEPT ![logfile] = NoFile, ![Sibling(logfile, name)] = fs[logfile]]
            /\ logfile' = Sibling(logfile, name)
            /\ err' = ""
       ELSE /\ UNCHANGED <<fs, logfile>>
            /\ err' = "FileNotFoundError"
    /\ notice' = ""
    /\ History(Op("rename", "", 0, name, <<>>))
    /\ UNCHANGED <<have, log>>
    /\ UNCHANGED <<crashVars, rtVars, fnVars, chatVars>>

NoMsg == Msg("<none>", <<>>, FALSE)

NoHistory ==
    [callLen |-> 0, cancelled |-> "none", cmdBroke |-> FALSE, phase |-> "idle",
     cycleLen |-> 0, cycleCancelled |-> FALSE, prompted |-> FALSE,
     curPrompt |-> NoMsg, cycleCalls |-> 0, startLen |-> 0, queued |-> FALSE,
     cycleIntr |-> FALSE, intrPending |-> FALSE, cmdPending |-> FALSE,
     queue0 |-> <<>>, taken |-> <<>>, restarts |-> 0]

\* no function is being applied
FnOff ==
    /\ fnpc = "off"
    /\ fnIn = <<>>
    /\ fnEnv = <<>>
    /\ fnOut = <<>>

\* chat is not running
ChatOff ==
    /\ pc = "off"
    /\ mode = "s"
    /\ queue = <<>>
    /\ interactive = FALSE
    /\ armed = FALSE
    /\ resp = <<>>
    /\ pend = NoMsg
    /\ yfrom = ""
    /\ cur = NoMsg
    /\ nres = 0
    /\ h = NoHistory

InitFs ==
    {[p \in AllPaths |->
        IF p = Lit("c1") THEN a ELSE IF p = Conv("c1") THEN b ELSE NoFile] :
     a \in {NoFile} \cup {LogText(s) : s \in FileSamples},
     b \in {NoFile} \cup {LogText(s) : s \in FileSamples}}

InitLog ==
    /\ have = FALSE
    /\ log = <<>>
    /\ logfile = NoPath
    /\ fs \in InitFs
    /\ notice = ""
    /\ err = ""
    /\ lastOp = NoOp
    /\ prevLog = <<>>
    /\ prevFs = fs
    /\ prevFile = NoPath
    /\ nops = 0
    /\ wpc = "idle"
    /\ widx = 0
    /\ rtpc = "start"
    /\ written = <<>>
    /\ initial = <<>>
    /\ ChatOff
    /\ FnOff

NextLog ==
    \/ \E loc \in Locations, init \in InitialMsgs : Load(loc, init)
    \/ \E m \in AppendMsgs : LogAppend(m)
    \/ \E n \in 1..MaxUndo : Undo(n)
    \/ Write
    \/ \E name \in ForkNames : Fork(name)
    \/ \E name \in ForkNames : Rename(name)

vars == <<logVars, crashVars, rtVars, chatVars, fnVars>>

SpecLog == InitLog /\ [][NextLog]_vars

-----------------------------------------------------------------------------
(* Claims about the conversation log, checked under SpecLog.               *)

\* C5, as stated: for every log of length N >= 1, undo(1) leaves the first
\* N-1 messages; undo on an empty log leaves it empty and reports that there
\* is nothing to undo.
C5_UndoOne_AsStated ==
    (lastOp.op = "undo" /\ lastOp.n = 1) =>
        /\ prevLog # <<>> => (log = Front(prevLog) /\ err = "")
        /\ prevLog = <<>> => (log = <<>> /\ notice = "Nothing to undo." /\ err = "")

\* C5, amended: for every log of length N >= 1 whose last message is not the
\* undo-command sentinel, undo(1) leaves the first N-1 messages, unchanged;
\* undo on an empty log leaves it empty and reports that there is nothing to
\* undo.
C5_UndoOne ==
    (lastOp.op = "undo" /\ lastOp.n = 1) =>
        /\ (prevLog # <<>> /\ ~StartsWithUndo(Last(prevLog).content)) =>
               (log = Front(prevLog) /\ err = "")
        /\ prevLog = <<>> => (log = <<>> /\ notice = "Nothing to undo." /\ err = "")

C5_Witness ==
    /\ lastOp.op = "undo" /\ lastOp.n = 1
    /\ Len(prevLog) >= 2
    /\ ~StartsWithUndo(Last(prevLog).content)
    /\ log = Front(prevLog)

\* C7: immediately after an append returns, the file logfile points to holds
\* exactly the in-memory sequence: one record per message, in log order.
C7_FileMatchesLogAfterAppend ==
    lastOp.op = "append" =>
        /\ exists(fs, logfile)
        /\ Len(readlines(fs[logfile])) = Len(log)
        /\ read_msgs(fs[logfile]) = log

\* an append after an undo and a fork: the first write of the new file
C7_Witness ==
    /\ lastOp.op = "append"
    /\ ~exists(prevFs, logfile)
    /\ Len(log) >= 2
    /\ \E p \in AllPaths : p # logfile /\ exists(fs, p) /\ Len(readlines(fs[p])) > Len(log)

\* C9, as stated: when fork returns, the new file holds the in-memory
\* sequence and the old file is as it was before the call.
C9_Fork_AsStated ==
    lastOp.op = "fork" =>
        /\ exists(fs, logfile)
        /\ read_msgs(fs[logfile]) = log
        /\ logfile # prevFile => fs[prevFile] = prevFs[prevFile]

\* C10: load reads the file at the literal path when it exists, otherwise the
\* file at the conventional location; when neither exists it fails with a
\* not-found error and returns no log.
LoadedFrom(path) ==
    /\ have
    /\ err = ""
    /\ logfile = path
    /\ log = (IF prevFs[path] = <<>> THEN lastOp.init ELSE read_msgs(prevFs[path]))

SentinelAtTail(l) == l # <<>> /\ StartsWithUndo(Last(l).content)

\* C22: undo(n) first discards the tail message when it is the undo command
\* and then removes exactly the last n messages: from a log of length L
\* without the undo command at the tail and 1 <= n <= L the first L-n
\* messages are left, and with the undo command at the tail and
\* 1 <= n <= L-1 the first L-1-n messages are left.
C22_UndoN ==
    lastOp.op = "undo" =>
        LET L == Len(prevLog)
            n == lastOp.n
        IN /\ (~SentinelAtTail(prevLog) /\ 1 <= n /\ n <= L) =>
                  (log = SubSeq(prevLog, 1, L - n) /\ err = "")
           /\ (SentinelAtTail(prevLog) /\ 1 <= n /\ n <= L - 1) =>
                  (log = SubSeq(prevLog, 1, L - 1 - n) /\ err = "")

\* undo(2) on a log of three messages that ends with the undo command
C22_Witness ==
    /\ lastOp.op = "undo" /\ lastOp.n = 2
    /\ Len(prevLog) = 3
    /\ SentinelAtTail(prevLog)
    /\ log = <<>>
    /\ err = ""

\* C27: undo changes only the in-memory sequence: the file system and the
\* logfile pointer are as they were before the call, so a file that held the
\* log before the undo still holds the removed messages after it.
C27_UndoKeepsFile ==
    lastOp.op = "undo" =>
        /\ fs = prevFs
        /\ logfile = prevFile
        /\ (exists(prevFs, prevFile) /\ read_msgs(prevFs[prevFile]) = prevLog) =>
               read_msgs(fs[logfile]) = prevLog

\* the file holds two messages that the undo took from the log
C27_Witness ==
    /\ lastOp.op = "undo"
    /\ err = ""
    /\ exists(fs, logfile)
    /\ read_msgs(fs[logfile]) = prevLog
    /\ Len(log) + 2 = Len(prevLog)

-----------------------------------------------------------------------------
(* The round trip: write_log(msgs, file), then LogManager.load(file).      *)

RTContents ==
    {<<>>, <<"a">>, <<NL>>, <<BS>>, <<QT>>, <<BS, "n">>, <<"a", NL, "b">>, <<BS, QT>>}

RTMsgs ==
    {Msg("user", c, FALSE) : c \in RTContents}
        \cup {Msg("assistant", c, TRUE) : c \in RTContents}
        \cup {S1}

RTSeqs == UNION {[1..n -> RTMsgs] : n \in 0..MaxRTLen}

InitRT ==
    /\ have = FALSE
    /\ log = <<>>
    /\ logfile = NoPath
    /\ \E old \in {NoFile, LogText(<<U1>>)} :
           fs = [p \in AllPaths |-> IF p = Lit("c1") THEN old ELSE NoFile]
    /\ notice = ""
    /\ err = ""
    /\ lastOp = NoOp
    /\ prevLog = <<>>
    /\ prevFs = fs
    /\ prevFile = NoPath
    /\ nops = 0
    /\ wpc = "idle"
    /\ widx = 0
    /\ rtpc = "start"
    /\ written \in RTSeqs
    /\ initial \in InitialMsgs
    /\ ChatOff
    /\ FnOff

\* write_log(written, "c1")
RTWrite ==
    /\ rtpc = "start"
    /\ fs' = write_log(written, Lit("c1"), fs)
    /\ rtpc' = "written"
    /\ UNCHANGED <<have, log, logfile, notice, err, lastOp, prevLog, prevFs, prevFile, nops>>
    /\ UNCHANGED <<crashVars, written, initial, chatVars, fnVars>>

\* LogManager.load("c1", initial)
RTLoad ==
    /\ rtpc = "written"
    /\ LET r == load("c1", initial, fs)
       IN /\ have' = r.ok
          /\ log' = r.log
          /\ logfile' = r.logfile
          /\ err' = r.err
    /\ rtpc' = "loaded"
    /\ UNCHANGED <<fs, notice, lastOp, prevLog, prevFs, prevFile, nops>>
    /\ UNCHANGED <<crashVars, written, initial, chatVars, fnVars>>

NextRT == RTWrite \/ RTLoad

SpecRT == InitRT /\ [][NextRT]_vars

\* C6, as stated: for every sequence of Messages, the empty one included, and
\* every initial-message sequence, writing the sequence and loading the file
\* yields a sequence equal to the written one.
C6_RoundTrip_AsStated ==
    rtpc = "loaded" => (have /\ log = written)

\* C6, amended: for every non-empty sequence of Messages and every
\* initial-message sequence, writing the sequence and loading the file yields
\* a sequence equal to the written one, in the same order and with the same
\* fields; for the empty sequence the load yields the initial-message
\* sequence.
C6_RoundTrip ==
    rtpc = "loaded" =>
        /\ have
        /\ written # <<>> => log = written
        /\ written = <<>> => log = initial

\* two messages, newline, quote and backslash in their contents, over an old file
C6_Witness ==
    /\ rtpc = "loaded"
    /\ Len(written) = 2
    /\ written[1].content = <<"a", NL, "b">>
    /\ written[2].content = <<BS, QT>>
    /\ initial # <<>>
    /\ log = written

-----------------------------------------------------------------------------
(* LogManager.append with write_log opened up: open(logfile, "w") empties   *)
(* the file, each file.write adds one record, and the with-block closes    *)
(* it.  The process may die at any point in between; what the file then    *)
(* holds is the records written so far and any part of the record being    *)
(* written.                                                                *)

InitCrash ==
    /\ have = TRUE
    /\ log \in FileSamples
    /\ logfile = Lit("c1")
    /\ fs = [p \in AllPaths |-> IF p = Lit("c1") THEN LogText(log) ELSE NoFile]
    /\ notice = ""
    /\ err = ""
    /\ lastOp = NoOp
    /\ prevLog = log
    /\ prevFs = fs
    /\ prevFile = logfile
    /\ nops = 0
    /\ wpc = "idle"
    /\ widx = 0
    /\ rtpc = "start"
    /\ written = <<>>
    /\ initial = <<>>
    /\ ChatOff
    /\ FnOff

\* append: self.log.append(msg); write_log: open(logfile, "w")
AppendOpen(m) ==
    /\ wpc = "idle"
    /\ have
    /\ Len(log) < MaxLog
    /\ log' = Append(log, m)
    /\ fs' = [fs EXCEPT ![logfile] = <<>>]
    /\ wpc' = "writing"
    /\ widx' = 0
    /\ lastOp' = Op("append", "", 0, "", <<>>)
    /\ prevLog' = log
    /\ prevFs' = fs
    /\ prevFile' = logfile
    /\ UNCHANGED <<have, logfile, notice, err, nops, rtVars, fnVars, chatVars>>

\* write_log: file.write(json.dumps(msg.to_dict()) + "\n") for the next msg
WriteRecord ==
    /\ wpc = "writing"
    /\ widx < Len(log)
    /\ fs' = [fs EXCEPT ![logfile] = @ \o to_dict_dumps(log[widx + 1]) \o <<NL>>]
    /\ widx' = widx + 1
    /\ UNCHANGED <<have, log, logfile, notice, err, lastOp, prevLog, prevFs, prevFile, nops>>
    /\ UNCHANGED <<wpc, rtVars, fnVars, chatVars>>

\* write_log: the with-block ends; append prints the message and returns
AppendReturn ==
    /\ wpc = "writing"
    /\ widx = Len(log)
    /\ wpc' = "idle"
    /\ notice' = "msg"
    /\ UNCHANGED <<have, log, logfile, fs, err, lastOp, prevLog, prevFs, prevFile, nops>>
    /\ UNCHANGED <<widx, rtVars, fnVars, chatVars>>

\* the process dies inside write_log; k characters of the next record are out
Crash(k) ==
    /\ wpc = "writing"
    /\ IF widx < Len(log)
       THEN LET rec == to_dict_dumps(log[widx + 1]) \o <<NL>>
            IN /\ k < Len(rec)
               /\ fs' = [fs EXCEPT ![logfile] = @ \o SubSeq(rec, 1, k)]
       ELSE k = 0 /\ fs' = fs
    /\ wpc' = "crashed"
    /\ UNCHANGED <<have, log, logfile, notice, err, lastOp, prevLog, prevFs, prevFile, nops>>
    /\ UNCHANGED <<widx, rtVars, fnVars, chatVars>>

MaxRecord == 12     \* no record of the model is longer than this

NextCrash ==
    \/ \E m \in AppendMsgs : AppendOpen(m)
    \/ WriteRecord
    \/ AppendReturn
    \/ \E k \in 0..MaxRecord : Crash(k)

SpecCrash == InitCrash /\ [][NextCrash]_vars

\* C8, as stated: if the process crashes during an append's write, the file
\* holds either the complete sequence from before the append or the complete
\* sequence after it.
C8_AtomicAppend_AsStated ==
    wpc = "crashed" =>
        \/ fs[logfile] = LogText(prevLog)
        \/ fs[logfile] = LogText(log)

-----------------------------------------------------------------------------
(* chat.py: the conversation loop.                                         *)

MaxQueue == 2       \* the longest prompt queue handed to chat
MaxNew == 5         \* no prompt is taken and no step started once the log has grown by this much
MaxResults == 1     \* execute_msg yields at most this many messages in a step

UserTxt == Msg("user", <<"hi">>, FALSE)
UserCmd == Msg("user", <<"/", "cmd">>, FALSE)
UserPinned == Msg("user", <<"hi">>, TRUE)
AsstPlain == Msg("assistant", <<"ok">>, FALSE)
AsstTool == Msg("assistant", <<"tool">>, FALSE)
ToolOut == Msg("system", <<"out">>, FALSE)
\* Message("system", "Interrupted")
InterruptedMsg == Msg("system", <<"Interrupted">>, FALSE)
\* Message("system", workspace_prompt, hide=True, quiet=True)
WorkspaceMsg == Msg("system", <<"ws">>, FALSE)

\* the logs chat finds on disk when it starts
ChatLogs ==
    {<<>>, <<S1>>, <<S1, UserTxt>>, <<S1, UserTxt, AsstPlain>>,
     <<UserTxt, AsstTool>>, <<S1, UserPinned>>, <<UserTxt, InterruptedMsg>>}

Prompts == {UserTxt, UserCmd}           \* what a prompt queue is made of
Typed == {UserTxt, UserCmd}             \* what prompt_user returns, as a Message
Replies == {AsstPlain, AsstTool}        \* what reply returns
ToolMsgs == {ToolOut, UserCmd}          \* what execute_msg yields

\* msg.content.startswith("/"); execute_cmd is true of a recognized command,
\* and is not among the sources at hand
execute_cmd(m) == Len(m.content) >= 2 /\ m.content[1] = "/" /\ m.content[2] = "cmd"

\* any(tooluse.is_runnable for tooluse in ToolUse.iter_from_content(content))
is_runnable(content) == \E i \in 1..Len(content) : content[i] = "tool"

\* a plausible slip in step: only a response at the tail asks for input
needs_input_response_only(l) ==
    IF l = <<>> THEN TRUE ELSE Last(l).role = "assistant"

\* step: the condition under which prompt_user is called
needs_input(l) ==
    IF l = <<>> THEN TRUE
    ELSE \/ Last(l).role \in {"assistant"}
         \/ Last(l).content = <<"Interrupted">>
         \/ Last(l).pinned
         \/ ~\E i \in 1..Len(l) : l[i].role = "user"

\* next((m.content for m in reversed(manager.log) if m.role == "assistant"), "")
RECURSIVE last_content(_)
last_content(l) ==
    IF l = <<>> THEN <<>>
    ELSE IF Last(l).role = "assistant" THEN Last(l).content
    ELSE last_content(Front(l))

\* manager.append(msg), on the log and on its file
ManagerAppend(m) ==
    /\ log' = Append(log, m)
    /\ fs' = write_log(log', logfile, fs)

\* the bound of the model: the log may still grow
Room == Len(log) - h.startLen < MaxNew

logRest == <<have, logfile, notice, err, lastOp, prevLog, prevFs, prevFile, nops>>

InitChat ==
    /\ have = TRUE
    /\ log \in ChatLogs
    /\ logfile = Conv("c1")
    /\ fs = [p \in AllPaths |-> IF p = Conv("c1") THEN LogText(log) ELSE NoFile]
    /\ notice = ""
    /\ err = ""
    /\ lastOp = NoOp
    /\ prevLog = <<>>
    /\ prevFs = fs
    /\ prevFile = logfile
    /\ nops = 0
    /\ wpc = "idle"
    /\ widx = 0
    /\ rtpc = "start"
    /\ written = <<>>
    /\ initial = <<>>
    /\ pc = "start"
    /\ mode = "s"
    /\ queue \in UNION {[1..n -> Prompts] : n \in 0..MaxQueue}
    /\ interactive \in BOOLEAN
    /\ armed = FALSE
    /\ resp = <<>>
    /\ pend = NoMsg
    /\ yfrom = ""
    /\ cur = NoMsg
    /\ nres = 0
    /\ h = [NoHistory EXCEPT !.startLen = Len(log), !.queued = (queue # <<>>),
                             !.queue0 = queue,
                             !.intrPending = (log # <<>> /\ Last(log) = InterruptedMsg)]
    /\ FnOff

\* a plausible slip in chat: the log is not searched for the workspace prompt
Startup_skips_content_test(wsp) ==
    /\ pc = "start"
    /\ IF /\ wsp # <<>>
          /\ ~\E i \in 1..Len(log) : log[i].role = "user"
       THEN ManagerAppend(Msg("system", wsp, FALSE))
       ELSE UNCHANGED <<log, fs>>
    /\ pc' = "main"
    /\ h' = [h EXCEPT !.cycleLen = Len(log')]
    /\ UNCHANGED <<mode, queue, interactive, armed, resp, pend, yfrom, cur, nres>>
    /\ UNCHANGED <<logRest, crashVars, rtVars, fnVars>>

\* chat, lines 91-100: the workspace prompt is appended unless it is in the
\* log already or the log has a user message; wsp is get_workspace_prompt's
\* text, <<>> when there is none
Startup(wsp) ==
    /\ pc = "start"
    /\ IF /\ wsp # <<>>
          /\ ~\E i \in 1..Len(log) : log[i].content = wsp
          /\ ~\E i \in 1..Len(log) : log[i].role = "user"
       THEN ManagerAppend(Msg("system", wsp, FALSE))
       ELSE UNCHANGED <<log, fs>>
    /\ pc' = "main"
    /\ h' = [h EXCEPT !.cycleLen = Len(log')]
    /\ UNCHANGED <<mode, queue, interactive, armed, resp, pend, yfrom, cur, nres>>
    /\ UNCHANGED <<logRest, crashVars, rtVars, fnVars>>

\* while True: if prompt_msgs
MainScripted ==
    /\ pc = "main"
    /\ queue # <<>>
    /\ pc' = "q_pop"
    /\ UNCHANGED <<mode, queue, interactive, armed, resp, pend, yfrom, cur, nres, h>>
    /\ UNCHANGED <<log, fs, logRest, crashVars, rtVars, fnVars>>

\* a plausible slip in chat: without a queue the non-interactive loop runs a
\* step before it leaves
MainExit_steps_first ==
    /\ pc = "main"
    /\ queue = <<>>
    /\ ~interactive
    /\ pc' = "step"
    /\ mode' = "i"
    /\ UNCHANGED <<queue, interactive, armed, resp, pend, yfrom, cur, nres, h>>
    /\ UNCHANGED <<log, fs, logRest, crashVars, rtVars, fnVars>>

\* while True: elif not interactive: break
MainExit ==
    /\ pc = "main"
    /\ queue = <<>>
    /\ ~interactive
    /\ pc' = "exit"
    /\ UNCHANGED <<mode, queue, interactive, armed, resp, pend, yfrom, cur, nres, h>>
    /\ UNCHANGED <<log, fs, logRest, crashVars, rtVars, fnVars>>

\* while True: clear_interruptible(); for msg in step(...): the generator
\* starts.  A cycle begins here when the last one is over: when the step will
\* ask for input, or the scripted loop has just ended.
MainInteractive ==
    /\ pc = "main"
    /\ queue = <<>>
    /\ interactive
    /\ Room
    /\ armed' = FALSE
    /\ mode' = "i"
    /\ pc' = "step"
    /\ resp' = <<>>
    /\ nres' = 0
    /\ cur' = NoMsg
    /\ LET fresh == needs_input(log) \/ h.phase = "cycle_over" \/ h.curPrompt # NoMsg
       IN h' = [h EXCEPT !.cancelled = "none", !.cmdBroke = FALSE, !.prompted = FALSE,
                         !.phase = "idle",
                         !.cycleLen = IF fresh THEN Len(log) ELSE @,
                         !.cycleCancelled = IF fresh THEN FALSE ELSE @,
                         !.cycleCalls = IF fresh THEN 0 ELSE @,
                         !.cycleIntr = IF fresh THEN FALSE ELSE @,
                         !.curPrompt = NoMsg]
    /\ UNCHANGED <<queue, interactive, pend, yfrom>>
    /\ UNCHANGED <<log, fs, logRest, crashVars, rtVars, fnVars>>

\* while prompt_msgs: ... ends: continue with the outer loop
QueueDone ==
    /\ pc = "q_pop"
    /\ queue = <<>>
    /\ pc' = "main"
    /\ UNCHANGED <<mode, queue, interactive, armed, resp, pend, yfrom, cur, nres, h>>
    /\ UNCHANGED <<log, fs, logRest, crashVars, rtVars, fnVars>>

\* a plausible slip in chat: the result of execute_cmd is not looked at
after_prompt_always_steps(m) == "s_try"

\* chat, lines 121-122: where the loop goes once the prompt is appended
after_prompt(m) == IF execute_cmd(m) THEN "q_pop" ELSE "s_try"

\* a plausible slip in chat: prompt_msgs.pop() takes the last prompt
QueuePop_takes_last ==
    /\ pc = "q_pop"
    /\ queue # <<>>
    /\ Room
    /\ queue' = Front(queue)
    /\ ManagerAppend(Last(queue))
    /\ pc' = after_prompt(Last(queue))
    /\ h' = [h EXCEPT !.phase = "idle", !.cycleLen = Len(log), !.cycleCancelled = FALSE,
                      !.cancelled = "none", !.cmdBroke = FALSE, !.prompted = FALSE,
                      !.curPrompt = Last(queue), !.cycleCalls = 0,
                      !.cycleIntr = FALSE, !.intrPending = FALSE,
                      !.cmdPending = FALSE, !.taken = Append(@, Len(log) + 1)]
    /\ UNCHANGED <<mode, interactive, armed, resp, pend, yfrom, cur, nres>>
    /\ UNCHANGED <<logRest, crashVars, rtVars, fnVars>>

\* msg = prompt_msgs.pop(0); manager.append(msg); if execute_cmd(...): continue
QueuePop ==
    /\ pc = "q_pop"
    /\ queue # <<>>
    /\ Room
    /\ queue' = Tail(queue)
    /\ ManagerAppend(Head(queue))
    /\ pc' = after_prompt(Head(queue))
    /\ h' = [h EXCEPT !.phase = "idle", !.cycleLen = Len(log), !.cycleCancelled = FALSE,
                      !.cancelled = "none", !.cmdBroke = FALSE, !.prompted = FALSE,
                      !.curPrompt = Head(queue), !.cycleCalls = 0,
                      !.cycleIntr = FALSE, !.intrPending = FALSE,
                      !.cmdPending = FALSE, !.taken = Append(@, Len(log) + 1)]
    /\ UNCHANGED <<mode, interactive, armed, resp, pend, yfrom, cur, nres>>
    /\ UNCHANGED <<logRest, crashVars, rtVars, fnVars>>

\* try: set_interruptible(); response_msgs = list(step(...)): the generator starts
ScriptedTry ==
    /\ pc = "s_try"
    /\ Room
    /\ armed' = TRUE
    /\ mode' = "s"
    /\ pc' = "step"
    /\ resp' = <<>>
    /\ nres' = 0
    /\ cur' = NoMsg
    /\ h' = [h EXCEPT !.cancelled = "none", !.cmdBroke = FALSE, !.prompted = FALSE,
                      !.phase = "idle"]
    /\ UNCHANGED <<queue, interactive, pend, yfrom>>
    /\ UNCHANGED <<log, fs, logRest, crashVars, rtVars, fnVars>>

\* the history of a model call that starts on n messages
CallStarts(n) ==
    [h EXCEPT !.callLen = n, !.cycleCalls = @ + 1]

\* the history when a step under the for-loop is over: control is back at
\* the user when the next step will ask for input
StepOver(l, broke) ==
    [h EXCEPT !.phase = IF needs_input(l) THEN "cycle_over" ELSE "step_over",
              !.cmdBroke = broke]

\* step, lines 204-212: input is needed; prompt_user: set_interruptible(),
\* then the read blocks
StepAsksInput ==
    /\ pc = "step"
    /\ needs_input(log)
    /\ pc' = "prompt"
    /\ armed' = TRUE
    /\ h' = [h EXCEPT !.prompted = TRUE]
    /\ UNCHANGED <<mode, queue, interactive, resp, pend, yfrom, cur, nres>>
    /\ UNCHANGED <<log, fs, logRest, crashVars, rtVars, fnVars>>

\* step, lines 204-232: no input is needed; try: set_interruptible();
\* prepare_messages; reply(...) is called
StepGenerates ==
    /\ pc = "step"
    /\ ~needs_input(log)
    /\ pc' = "reply"
    /\ armed' = TRUE
    /\ h' = CallStarts(Len(log))
    /\ UNCHANGED <<mode, queue, interactive, resp, pend, yfrom, cur, nres>>
    /\ UNCHANGED <<log, fs, logRest, crashVars, rtVars, fnVars>>

\* prompt_user returns m's text: clear_interruptible(); step yields the
\* message.  Under list() the generator goes on to the model call; under the
\* for-loop chat gets the message first.
PromptInput(m) ==
    /\ pc = "prompt"
    /\ IF mode = "s"
       THEN /\ resp' = Append(resp, m)
            /\ armed' = TRUE
            /\ pc' = "reply"
            /\ h' = [CallStarts(Len(log) + 1) EXCEPT !.intrPending = FALSE,
                                                     !.cmdPending = FALSE]
            /\ UNCHANGED <<pend, yfrom>>
       ELSE /\ pend' = m
            /\ yfrom' = "input"
            /\ armed' = FALSE
            /\ pc' = "yield"
            /\ h' = [h EXCEPT !.intrPending = FALSE, !.cmdPending = FALSE]
            /\ UNCHANGED resp
    /\ UNCHANGED <<mode, queue, interactive, cur, nres>>
    /\ UNCHANGED <<log, fs, logRest, crashVars, rtVars, fnVars>>

\* prompt_user: EOFError: sys.exit(0); the scripted loop's finally disarms
PromptEOF ==
    /\ pc = "prompt"
    /\ pc' = "exit"
    /\ armed' = (mode = "i")
    /\ UNCHANGED <<mode, queue, interactive, resp, pend, yfrom, cur, nres, h>>
    /\ UNCHANGED <<log, fs, logRest, crashVars, rtVars, fnVars>>

\* prompt_user: KeyboardInterrupt while reading: a notice, and it reads again
IntrPrompt ==
    /\ pc = "prompt"
    /\ armed
    /\ UNCHANGED <<pc, mode, queue, interactive, armed, resp, pend, yfrom, cur, nres, h>>
    /\ UNCHANGED <<log, fs, logRest, crashVars, rtVars, fnVars>>

\* KeyboardInterrupt between chat's set_interruptible() and step's try: it
\* leaves list(step(...)); chat, lines 137-142: the sentinel, break, disarm
IntrBeforeTry ==
    /\ pc = "step"
    /\ armed
    /\ ManagerAppend(InterruptedMsg)
    /\ armed' = FALSE
    /\ pc' = "q_pop"
    /\ h' = [h EXCEPT !.cancelled = "pre", !.phase = "cycle_over",
                      !.cycleIntr = TRUE, !.intrPending = TRUE]
    /\ UNCHANGED <<mode, queue, interactive, resp, pend, yfrom, cur, nres>>
    /\ UNCHANGED <<logRest, crashVars, rtVars, fnVars>>

\* step hands message m out: list() collects it, the for-loop gets it
Yield(m, at, then) ==
    IF mode = "s"
    THEN /\ resp' = Append(resp, m)
         /\ pc' = then
         /\ UNCHANGED <<pend, yfrom>>
    ELSE /\ pend' = m
         /\ yfrom' = at
         /\ pc' = "yield"
         /\ UNCHANGED resp

\* reply returns r; step, line 237: yield msg_response.replace(quiet=True)
ReplyReturns(r) ==
    /\ pc = "reply"
    /\ cur' = r
    /\ Yield(r, "resp", "tools")
    /\ UNCHANGED <<mode, queue, interactive, armed, nres, h>>
    /\ UNCHANGED <<log, fs, logRest, crashVars, rtVars, fnVars>>

\* where a cancelled step leaves the messages it has already handed out:
\* a plausible slip, the response streamed so far is yielded before the sentinel
cancelled_tail_keeps_partial(at) == IF at = "reply" THEN <<AsstPlain>> ELSE <<>>

\* step, lines 239-241: what the except clause yields before the sentinel
cancelled_tail(at) == <<>>

\* KeyboardInterrupt inside reply or execute_msg; step, lines 239-243:
\* clear_interruptible(); yield Message("system", "Interrupted")
Cancel(at) ==
    /\ armed
    /\ armed' = FALSE
    /\ IF mode = "s"
       THEN /\ resp' = resp \o cancelled_tail(at) \o <<InterruptedMsg>>
            /\ pc' = "collect"
            /\ UNCHANGED <<pend, yfrom>>
       ELSE /\ pend' = InterruptedMsg
            /\ yfrom' = "intr"
            /\ pc' = "yield"
            /\ UNCHANGED resp
    /\ h' = [h EXCEPT !.cancelled = at, !.cycleIntr = TRUE, !.intrPending = TRUE,
                      !.cycleCancelled = IF at = "reply" THEN TRUE ELSE @]
    /\ UNCHANGED <<mode, queue, interactive, cur, nres>>
    /\ UNCHANGED <<log, fs, logRest, crashVars, rtVars, fnVars>>

IntrReply == pc = "reply" /\ Cancel("reply")

IntrTools == pc = "tools" /\ Cancel("tools")

\* reply raises something else: step's finally disarms, chat does not catch it
ReplyRaises ==
    /\ pc = "reply"
    /\ armed' = FALSE
    /\ pc' = "crashed"
    /\ UNCHANGED <<mode, queue, interactive, resp, pend, yfrom, cur, nres, h>>
    /\ UNCHANGED <<log, fs, logRest, crashVars, rtVars, fnVars>>

\* step, line 238: yield from execute_msg(msg_response, confirm): one message
ToolYields(m) ==
    /\ pc = "tools"
    /\ is_runnable(cur.content)
    /\ nres < MaxResults
    /\ nres' = nres + 1
    /\ Yield(m, "result", "tools")
    /\ UNCHANGED <<mode, queue, interactive, armed, cur, h>>
    /\ UNCHANGED <<log, fs, logRest, crashVars, rtVars, fnVars>>

\* execute_msg is exhausted; step's finally: clear_interruptible()
ToolsDone ==
    /\ pc = "tools"
    /\ armed' = FALSE
    /\ IF mode = "s"
       THEN pc' = "collect" /\ h' = h
       ELSE pc' = "main" /\ h' = StepOver(log, FALSE)
    /\ UNCHANGED <<mode, queue, interactive, resp, pend, yfrom, cur, nres>>
    /\ UNCHANGED <<log, fs, logRest, crashVars, rtVars, fnVars>>

\* chat, lines 144-150: the messages of response_msgs that get appended: up
\* to and including the first user message that is a command
RECURSIVE appended_until_cmd(_)
appended_until_cmd(r) ==
    IF r = <<>> THEN <<>>
    ELSE IF Head(r).role = "user" /\ execute_cmd(Head(r)) THEN <<Head(r)>>
    ELSE <<Head(r)>> \o appended_until_cmd(Tail(r))

\* a plausible slip in chat: the runnable tools are looked for in the response
\* of the step, not in the last assistant message of the log
Collect_checks_response ==
    /\ pc = "collect"
    /\ LET app == appended_until_cmd(resp)
           l2 == log \o app
           broke == app # <<>> /\ Last(app).role = "user" /\ execute_cmd(Last(app))
           byResult == broke /\ ~(h.prompted /\ Len(app) = 1)
       IN /\ log' = l2
          /\ fs' = write_log(l2, logfile, fs)
          /\ IF is_runnable(cur.content)
             THEN /\ pc' = "s_try"
                  /\ h' = [h EXCEPT !.phase = "step_over", !.cmdBroke = broke,
                                    !.cmdPending = @ \/ byResult]
             ELSE /\ pc' = "q_pop"
                  /\ h' = [h EXCEPT !.phase = "cycle_over", !.cmdBroke = broke,
                                    !.cmdPending = @ \/ byResult]
    /\ armed' = FALSE
    /\ UNCHANGED <<mode, queue, interactive, resp, pend, yfrom, cur, nres>>
    /\ UNCHANGED <<logRest, crashVars, rtVars, fnVars>>

\* chat, lines 141-165: finally: clear_interruptible(); the responses are
\* appended; the cycle goes on while the last assistant message has a
\* runnable tool
Collect ==
    /\ pc = "collect"
    /\ LET app == appended_until_cmd(resp)
           l2 == log \o app
           broke == app # <<>> /\ Last(app).role = "user" /\ execute_cmd(Last(app))
           \* the command is a result of the step, not the input the step read
           byResult == broke /\ ~(h.prompted /\ Len(app) = 1)
       IN /\ log' = l2
          /\ fs' = write_log(l2, logfile, fs)
          /\ IF is_runnable(last_content(l2))
             THEN /\ pc' = "s_try"
                  /\ h' = [h EXCEPT !.phase = "step_over", !.cmdBroke = broke,
                                    !.cmdPending = @ \/ byResult]
             ELSE /\ pc' = "q_pop"
                  /\ h' = [h EXCEPT !.phase = "cycle_over", !.cmdBroke = broke,
                                    !.cmdPending = @ \/ byResult]
    /\ armed' = FALSE
    /\ UNCHANGED <<mode, queue, interactive, resp, pend, yfrom, cur, nres>>
    /\ UNCHANGED <<logRest, crashVars, rtVars, fnVars>>

\* chat, lines 181-187: manager.append(msg); a user message that is a command
\* breaks the for-loop, which closes the generator (its finally disarms);
\* otherwise the generator resumes after its yield
ChatAppends ==
    /\ pc = "yield"
    /\ ManagerAppend(pend)
    /\ IF pend.role = "user" /\ execute_cmd(pend)
       THEN /\ armed' = FALSE
            /\ pc' = "main"
            /\ h' = [StepOver(log', TRUE) EXCEPT !.cmdPending = @ \/ (yfrom = "result")]
       ELSE CASE yfrom = "input" ->
                    /\ armed' = TRUE
                    /\ pc' = "reply"
                            /\ h' = CallStarts(Len(log'))
              [] yfrom \in {"resp", "result"} ->
                    /\ pc' = "tools"
                    /\ UNCHANGED <<armed, h>>
              [] yfrom = "intr" ->
                    /\ armed' = FALSE
                    /\ pc' = "main"
                            /\ h' = StepOver(log', FALSE)
    /\ pend' = NoMsg
    /\ UNCHANGED <<mode, queue, interactive, resp, yfrom, cur, nres>>
    /\ UNCHANGED <<logRest, crashVars, rtVars, fnVars>>

\* KeyboardInterrupt while the for-loop body runs with the flag still armed:
\* nothing in chat catches it.  It arrives before manager.append, inside
\* write_log (the file opened and not yet written), or after it.
IntrInLoopBody(at) ==
    /\ pc = "yield"
    /\ armed
    /\ CASE at = "before" -> UNCHANGED <<log, fs>>
         [] at = "inside" -> log' = Append(log, pend) /\ fs' = [fs EXCEPT ![logfile] = <<>>]
         [] at = "after" -> ManagerAppend(pend)
    /\ armed' = FALSE
    /\ pc' = "crashed"
    /\ UNCHANGED <<mode, queue, interactive, resp, pend, yfrom, cur, nres, h>>
    /\ UNCHANGED <<logRest, crashVars, rtVars, fnVars>>

NextChat ==
    \/ \E wsp \in {<<>>, <<"ws">>} : Startup(wsp)
    \/ MainScripted
    \/ MainExit
    \/ MainInteractive
    \/ QueueDone
    \/ QueuePop
    \/ ScriptedTry
    \/ StepAsksInput
    \/ StepGenerates
    \/ \E m \in Typed : PromptInput(m)
    \/ PromptEOF
    \/ IntrPrompt
    \/ IntrBeforeTry
    \/ \E r \in Replies : ReplyReturns(r)
    \/ IntrReply
    \/ IntrTools
    \/ ReplyRaises
    \/ \E m \in ToolMsgs : ToolYields(m)
    \/ ToolsDone
    \/ Collect
    \/ ChatAppends
    \/ \E at \in {"before", "inside", "after"} : IntrInLoopBody(at)

SpecChat == InitChat /\ [][NextChat]_vars

-----------------------------------------------------------------------------
(* chat is run again on the same conversation: the process has ended, by   *)
(* return, by sys.exit or by an exception, and a new one loads the log      *)
(* from its file.                                                          *)

MaxRestarts == 2    \* the number of times chat is run again

\* chat, lines 62-74, in a new process: LogManager.load(logdir, initial_msgs)
\* reads the file; the queue and the mode are the new call's
Restart(q, i, init) ==
    /\ pc \in {"exit", "crashed"}
    /\ h.restarts < MaxRestarts
    /\ LET r == load("c1", init, fs)
       IN /\ r.ok
          /\ log' = r.log
          /\ logfile' = r.logfile
    /\ pc' = "start"
    /\ mode' = "s"
    /\ queue' = q
    /\ interactive' = i
    /\ armed' = FALSE
    /\ resp' = <<>>
    /\ pend' = NoMsg
    /\ yfrom' = ""
    /\ cur' = NoMsg
    /\ nres' = 0
    /\ h' = [NoHistory EXCEPT !.startLen = h.startLen, !.queued = (q # <<>>),
                              !.queue0 = q, !.restarts = h.restarts + 1,
                              !.intrPending = (log' # <<>> /\ Last(log') = InterruptedMsg)]
    /\ UNCHANGED <<have, fs, notice, err, lastOp, prevLog, prevFs, prevFile, nops>>
    /\ UNCHANGED <<crashVars, rtVars, fnVars>>

\* the queues chat is given when it is run again
RestartQueues == {<<>>, <<UserTxt>>, <<UserCmd>>}

\* the first run starts on a new conversation, interactive or with a queue
InitRestart ==
    /\ InitChat
    /\ log \in {<<>>, <<S1>>}
    /\ queue \in RestartQueues
    /\ interactive => queue = <<>>

\* the later runs are not interactive
NextRestart ==
    \/ NextChat
    \/ \E q \in RestartQueues, init \in InitialMsgs : Restart(q, FALSE, init)

SpecRestart == InitRestart /\ [][NextRestart]_vars

-----------------------------------------------------------------------------
(* Claims about the conversation loop, checked under SpecChat.             *)

\* a step and its appends are over / the cycle is over
StepDone == h.phase \in {"step_over", "cycle_over"}
CycleDone == h.phase = "cycle_over"

C2_Resume_AsStated ==
    pc = "prompt" => (IF log = <<>> THEN TRUE ELSE Last(log).role # "user")

\* the log's last message is the sentinel, or is pinned, or the log has no
\* user message
Resting(l) ==
    IF l = <<>> THEN TRUE
    ELSE \/ Last(l) = InterruptedMsg
         \/ Last(l).pinned
         \/ \A i \in 1..Len(l) : l[i].role # "user"

C4_CommandShortCircuit ==
    (h.curPrompt # NoMsg /\ execute_cmd(h.curPrompt)) =>
        /\ h.cycleCalls = 0
        /\ pc \in {"q_pop", "main", "exit"}
        /\ pc = "q_pop" \/ queue = <<>>

\* a command was taken from the queue and another prompt is waiting
C4_Witness ==
    /\ h.curPrompt = UserCmd
    /\ pc = "q_pop"
    /\ queue # <<>>
    /\ Last(log) = UserCmd
    /\ h.cycleCalls = 0

\* C12, as stated: the interrupt flag is disarmed whenever the loop is blocked
\* waiting for user input: it is never armed while the loop is idle at the
\* prompt.
C12_DisarmedAtPrompt_AsStated ==
    pc = "prompt" => ~armed

\* chat was started non-interactive with an empty prompt queue: no prompt was
\* ever taken from the queue
NoQueueRun == pc # "off" /\ ~interactive /\ queue = <<>> /\ h.curPrompt = NoMsg

C14_EndsAfterQueue_AsStated ==
    h.queued => ~(mode = "i" /\ pc \in {"prompt", "reply"})

\* C14, amended: when a non-empty queue of prompts was supplied and chat is not
\* interactive, the loop ends when the queue is exhausted: after the last
\* queued prompt's cycle ends chat returns, without reading user input and
\* without a further model call.
C14_EndsAfterQueue ==
    /\ []((h.queued /\ ~interactive) => mode = "s")
    /\ [][(h.queued /\ ~interactive /\ pc = "main" /\ queue = <<>>) =>
             (pc' = "exit" /\ log' = log /\ h'.cycleCalls = h.cycleCalls)]_vars

\* chat has returned after the cycles of two queued prompts, with a model call
\* in the last one
C14_Witness ==
    /\ h.queued /\ ~interactive
    /\ pc = "exit"
    /\ queue = <<>>
    /\ h.cycleCalls >= 1
    /\ Len(log) >= h.startLen + 4

\* C15, as stated: when a cancellation arrives while armed, the cycle ends
\* right after the "Interrupted" sentinel: in that cycle (h.cycleIntr: a
\* cancellation has arrived in the running cycle) no further model call is
\* made and no tool execution starts.
C15_CancelEndsCycle_AsStated ==
    h.cycleIntr => pc \notin {"reply", "tools"}

\* C16, as stated: after a cancellation (h.intrPending: no prompt was taken
\* from the queue and no user input was read since) no model call is made
\* until a new user message has come in.
C16_NonResumable_AsStated ==
    h.intrPending => pc # "reply"

\* C23, as stated: when a user-role result message appended during a cycle
\* is a command that executes, the rest of the cycle is cut short: after it
\* (h.cmdPending: no prompt was taken from the queue and no user input was read
\* since) no further model call is made for that prompt.
C23_ResultCommandEndsCycle_AsStated ==
    h.cmdPending => pc # "reply"

C25_QueueInOrder ==
    /\ [](pc # "off" =>
            LET k == Len(h.taken)
            IN /\ queue = SubSeq(h.queue0, k + 1, Len(h.queue0))
               /\ \A i \in 1..k : h.taken[i] <= Len(log) /\ log[h.taken[i]] = h.queue0[i]
               /\ \A i \in 1..(k - 1) : h.taken[i] < h.taken[i + 1])
    /\ [][/\ Len(log) <= Len(log') /\ SubSeq(log', 1, Len(log)) = log
          /\ queue' # queue =>
                 /\ pc = "q_pop"
                 /\ ~armed
                 /\ pend = NoMsg
                 /\ log' = Append(log, Head(queue))
                 /\ queue' = Tail(queue)]_vars

\* two different prompts were taken, a response and more stand between them
\* in the log, and the second prompt has got its own response
C25_Witness ==
    /\ Len(h.taken) = 2
    /\ h.queue0[1] # h.queue0[2]
    /\ h.taken[2] > h.taken[1] + 2
    /\ Len(log) > h.taken[2]
    /\ log[h.taken[1] + 1].role = "assistant"

\* C26, as stated: whenever a step is over, whether it completed, was
\* cancelled or ended with an exception, and whenever an iteration of a
\* scripted cycle is over, the interrupt flag is disarmed.
C26_DisarmedAfterStep_AsStated ==
    pc \in {"collect", "s_try", "q_pop", "main", "crashed", "exit"} => ~armed

\* C28, as stated: while the cycle of a queued prompt is processed in scripted
\* mode, the loop never blocks to read user input: no step called from the
\* scripted inner loop gets to prompt_user, whatever the step before it left.
C28_ScriptedNeverPrompts_AsStated ==
    (mode = "s" /\ h.curPrompt # NoMsg) => pc # "prompt"

\* C29, as stated: no log append, and so no write of the log file, happens
\* while the interrupt flag is armed, in scripted mode and in interactive
\* mode.
C29_NoAppendWhileArmed_AsStated ==
    [][(log' # log \/ fs' # fs) => ~armed]_vars

\* the places of the log that hold the workspace prompt
workspace_prompts(l) == {i \in 1..Len(l) : l[i].content = WorkspaceMsg.content}

\* C30: however often chat is run again on the same conversation, the
\* workspace prompt is in the log at most once, and the start of chat appends
\* it only to a log that holds neither a user message nor the prompt.
C30_WorkspacePromptOnce ==
    /\ [](Cardinality(workspace_prompts(log)) <= 1)
    /\ [][(pc = "start" /\ log' # log) =>
             /\ log' = Append(log, WorkspaceMsg)
             /\ workspace_prompts(log) = {}
             /\ \A i \in 1..Len(log) : log[i].role # "user"]_vars

\* chat was run three times and is past its start; the log still has no user
\* message and holds the prompt once
C30_Witness ==
    /\ h.restarts = MaxRestarts
    /\ pc = "main"
    /\ Cardinality(workspace_prompts(log)) = 1
    /\ \A i \in 1..Len(log) : log[i].role # "user"

-----------------------------------------------------------------------------
(* Context limiting.  prepare_messages hands the reduced log to limit_log,  *)
(* which lives in tools/reduce.py and is not among the sources: it is      *)
(* written here from the specification (4.2): given a token budget, the     *)
(* oldest messages that are neither pinned nor system messages are evicted  *)
(* until the estimated token count is within the budget.                    *)

MaxLimitLen == 3    \* the longest sequence handed to limit_log
MaxBudget == 4      \* the largest token budget

\* nothing but the function under study is running
Idle ==
    /\ have = FALSE
    /\ log = <<>>
    /\ logfile = NoPath
    /\ fs = [p \in AllPaths |-> NoFile]
    /\ notice = ""
    /\ err = ""
    /\ lastOp = NoOp
    /\ prevLog = <<>>
    /\ prevFs = fs
    /\ prevFile = NoPath
    /\ nops = 0
    /\ wpc = "idle"
    /\ widx = 0
    /\ rtpc = "start"
    /\ written = <<>>
    /\ initial = <<>>
    /\ ChatOff

LimitMsgs ==
    {Msg("system", <<"s">>, FALSE), Msg("user", <<"p", "q">>, TRUE),
     Msg("user", <<"a">>, FALSE), Msg("assistant", <<"b", "c">>, FALSE)}

\* the token estimate: monotonic in the length of the content
RECURSIVE len_tokens(_)
len_tokens(msgs) ==
    IF msgs = <<>> THEN 0 ELSE Len(Head(msgs).content) + len_tokens(Tail(msgs))

\* system and pinned messages are never evicted
protected(m) == m.pinned \/ m.role = "system"

\* the index of the oldest message that may be evicted, 0 when there is none
oldest_eligible(msgs) ==
    IF \E i \in 1..Len(msgs) : ~protected(msgs[i])
    THEN CHOOSE i \in 1..Len(msgs) :
             /\ ~protected(msgs[i])
             /\ \A j \in 1..(i - 1) : protected(msgs[j])
    ELSE 0

RemoveAt(s, i) == SubSeq(s, 1, i - 1) \o SubSeq(s, i + 1, Len(s))

\* a plausible slip in limit_log: the oldest message goes, pinned or not
RECURSIVE limit_log_oldest_first(_, _)
limit_log_oldest_first(msgs, budget) ==
    IF len_tokens(msgs) <= budget \/ msgs = <<>> THEN msgs
    ELSE limit_log_oldest_first(Tail(msgs), budget)

\* limit_log: evict oldest-first, pinned-exempt, until within the budget
RECURSIVE limit_log(_, _)
limit_log(msgs, budget) ==
    IF len_tokens(msgs) <= budget THEN msgs
    ELSE LET i == oldest_eligible(msgs)
         IN IF i = 0 THEN msgs ELSE limit_log(RemoveAt(msgs, i), budget)

InitLimit ==
    /\ Idle
    /\ fnpc = "start"
    /\ fnIn \in UNION {[1..n -> LimitMsgs] : n \in 0..MaxLimitLen}
    /\ fnEnv \in 0..MaxBudget
    /\ fnOut = <<>>

\* prepare_messages: msgs_limited = limit_log(msgs_reduced)
Limit ==
    /\ fnpc = "start"
    /\ fnOut' = limit_log(fnIn, fnEnv)
    /\ fnpc' = "done"
    /\ UNCHANGED <<fnIn, fnEnv>>
    /\ UNCHANGED <<logVars, crashVars, rtVars, chatVars>>

NextLimit == Limit

SpecLimit == InitLimit /\ [][NextLimit]_vars

\* C17: for every message sequence and every token budget, the output of
\* limiting contains every pinned message and every system message of its
\* input, in the same relative order, even when the total token count stays
\* above the budget.
C17_PinnedExempt ==
    fnpc = "done" =>
        /\ SelectSeq(fnOut, protected) = SelectSeq(fnIn, protected)
        /\ Len(fnOut) <= Len(fnIn)

\* something was evicted, a pinned message stayed, and the result is still
\* over the budget
C17_Witness ==
    /\ fnpc = "done"
    /\ Len(fnOut) < Len(fnIn)
    /\ \E i \in 1..Len(fnOut) : fnOut[i].pinned
    /\ len_tokens(fnOut) > fnEnv

-----------------------------------------------------------------------------
(* Content inclusion: _include_paths, _parse_prompt, _parse_prompt_files    *)
(* (chat.py).  The content of a message is a sequence of tokens: the fence  *)
(* of three backticks, the newline, and words.  Tokens that follow one      *)
(* another without a newline or a fence between them are one word.  The     *)
(* leading underscore of the functions' names is dropped.                   *)

MaxContent == 8     \* the longest content, over the small alphabet
MaxShort == 3       \* the longest content, over the full alphabet and every environment

FENCE == "<fence>"           \* three backticks
TextPath == "./a"           \* a word that starts with a path character
CwdName == "b.png"          \* a bare name, a candidate when the directory lists it
Url == "http://u"
Plain == "hi"
CmdPath == "/cmd"           \* "/" and the name of a registered command

Statuses == {"text", "binary", "missing", "denied"}

\* Message(role="user", content, files)
FMsg(c, f) == [role |-> "user", content |-> c, pinned |-> FALSE, files |-> f]

\* what _include_paths reads besides the message: the state of the files,
\* use_fresh_context, has_tool("browser"), and how read_url ends
Env(a, b, c, fresh, browser, fetch) ==
    [files |-> [p \in {TextPath, CwdName, CmdPath} |->
                   IF p = TextPath THEN a ELSE IF p = CwdName THEN b ELSE c],
     fresh |-> fresh, browser |-> browser, fetch |-> fetch]

Envs ==
    {Env(a, b, c, fr, br, fe) :
        a \in Statuses, b \in {"binary", "missing"}, c \in Statuses,
        fr \in BOOLEAN, br \in BOOLEAN, fe \in {"ok", "fail"}}

\* the file is there, it is text, nothing else is in the way
PlainEnv == Env("text", "missing", "text", FALSE, FALSE, "ok")

\* prompt.startswith(command) for a registered command
is_command(word) == word[1] = CmdPath

\* re.sub(r"```.*?\n```", "", content, flags=re.DOTALL): from a fence to the
\* nearest newline that a fence follows, leftmost first, not overlapping
RECURSIVE strip_codeblocks(_)
strip_codeblocks(c) ==
    LET opens == {i \in 1..Len(c) : c[i] = FENCE}
    IN IF opens = {} THEN c
       ELSE LET i == CHOOSE x \in opens : \A y \in opens : x <= y
                closes == {j \in (i + 1)..(Len(c) - 1) : c[j] = NL /\ c[j + 1] = FENCE}
            IN IF closes = {} THEN c
               ELSE LET j == CHOOSE x \in closes : \A y \in closes : x <= y
                    IN SubSeq(c, 1, i - 1) \o strip_codeblocks(SubSeq(c, j + 2, Len(c)))

\* re.split(r"[\s`]", ...), empty words dropped: the words, in order, each a
\* run of tokens
RECURSIVE split_words(_, _)
split_words(c, run) ==
    IF c = <<>> THEN (IF run = <<>> THEN <<>> ELSE <<run>>)
    ELSE IF Head(c) \in {NL, FENCE}
         THEN (IF run = <<>> THEN <<>> ELSE <<run>>) \o split_words(Tail(c), <<>>)
         ELSE split_words(Tail(c), Append(run, Head(c)))

\* Path(word): the state of the file the word names; a word made of several
\* tokens names no file
status(word, env) ==
    IF Len(word) = 1 /\ word[1] \in DOMAIN env.files THEN env.files[word[1]]
    ELSE "missing"

\* the test of _include_paths, lines 336-345
is_candidate(word, env) ==
    \/ word[1] = TextPath
    \/ word[1] = CmdPath
    \/ word[1] = Url
    \/ Len(word) = 1 /\ word[1] = CwdName /\ env.files[CwdName] # "missing"

\* f"```{prompt}\n{text}\n```"
codeblock(word, text) == <<FENCE>> \o word \o <<NL, text, NL, FENCE>>

\* the body of _parse_prompt behind the command test, lines 382-435
parse_prompt_path(word, env) ==
    LET st == status(word, env)
    IN CASE st = "text" ->      \* f.exists() and f.is_file(): the file in a codeblock
                [raised |-> FALSE, val |-> codeblock(word, "T")]
         [] st = "denied" ->    \* read_text raises an OSError: except OSError: ...; raise
                [raised |-> TRUE, val |-> <<>>]
         [] st = "binary" ->    \* UnicodeDecodeError: return None
                [raised |-> FALSE, val |-> <<>>]
         [] st = "missing" ->   \* the second half: urlparse, read_url
                IF word[1] = Url
                THEN [raised |-> FALSE,
                      val |-> <<NL, NL>> \o
                              (IF env.browser /\ env.fetch = "ok"
                               THEN codeblock(word, "U") ELSE <<>>)]
                ELSE [raised |-> FALSE, val |-> <<>>]

\* a plausible slip in _parse_prompt: the command test is left out
parse_prompt_no_command_test(word, env) == parse_prompt_path(word, env)

\* _parse_prompt(word) for a word without whitespace: [raised, val], val
\* empty for None and for ""
parse_prompt(word, env) ==
    IF is_command(word) THEN [raised |-> FALSE, val |-> <<>>]
    ELSE parse_prompt_path(word, env)

\* _parse_prompt_files(word): the path, or <<>> for None
parse_prompt_files(word, env) ==
    LET st == status(word, env)
    IN IF is_command(word) THEN <<>>
       ELSE CASE st = "text" -> word
              [] st = "binary" -> IF word = <<CwdName>> THEN word ELSE <<>>
              [] st = "denied" -> <<>>
              [] st = "missing" -> <<>>

\* the for-loop of _include_paths over the words: [append_msg, files, raised]
RECURSIVE scan_words(_, _, _)
scan_words(ws, env, acc) ==
    IF ws = <<>> \/ acc.raised THEN acc
    ELSE LET w == Head(ws)
             f == parse_prompt_files(w, env)
             withFile == IF f = <<>> THEN acc ELSE [acc EXCEPT !.files = Append(@, f)]
         IN IF ~is_candidate(w, env) THEN scan_words(Tail(ws), env, acc)
            ELSE IF env.fresh THEN scan_words(Tail(ws), env, withFile)
            ELSE LET r == parse_prompt(w, env)
                 IN IF r.raised THEN [acc EXCEPT !.raised = TRUE]
                    ELSE IF r.val # <<>>
                    THEN scan_words(Tail(ws), env,
                                    [acc EXCEPT !.append_msg = @ \o <<NL, NL>> \o r.val])
                    ELSE scan_words(Tail(ws), env, withFile)

\* a plausible slip in _include_paths: the file contents go in front
add_contents_in_front(content, append_msg) == append_msg \o content

\* msg.replace(content=msg.content + append_msg)
add_contents(content, append_msg) == content \o append_msg

\* _include_paths(msg): [raised, msg]; when it raises, no message is returned
include_paths(msg, env) ==
    LET ws == split_words(strip_codeblocks(msg.content), <<>>)
        acc == scan_words(ws, env, [append_msg |-> <<>>, files |-> <<>>, raised |-> FALSE])
    IN IF acc.raised THEN [raised |-> TRUE, msg |-> NoMsg]
       ELSE [raised |-> FALSE,
             msg |-> [msg EXCEPT !.files = @ \o acc.files,
                                 !.content = add_contents(@, acc.append_msg)]]

SmallAlphabet == {FENCE, NL, TextPath, Plain}
FullAlphabet == {NL, TextPath, CwdName, Url, Plain, CmdPath}

InitInclude ==
    /\ Idle
    /\ fnpc = "start"
    /\ fnOut = <<>>
    /\ \/ /\ fnEnv = PlainEnv
          /\ \E c \in UNION {[1..n -> SmallAlphabet] : n \in 0..MaxContent} :
                 fnIn = FMsg(c, <<>>)
       \/ /\ fnEnv \in Envs
          /\ \E c \in UNION {[1..n -> FullAlphabet] : n \in 0..MaxShort},
                f \in {<<>>, << <<"old.png">> >>} :
                 fnIn = FMsg(c, f)

\* msg = _include_paths(msg, workspace)
Include ==
    /\ fnpc = "start"
    /\ fnOut' = include_paths(fnIn, fnEnv)
    /\ fnpc' = "done"
    /\ UNCHANGED <<fnIn, fnEnv>>
    /\ UNCHANGED <<logVars, crashVars, rtVars, chatVars>>

NextInclude == Include

SpecInclude == InitInclude /\ [][NextInclude]_vars

\* position p of the content lies inside a fenced block: between a fence that
\* opens a line and the next fence that opens a line and has the rest of its
\* line to itself
fence_lines(c) == {i \in 1..Len(c) : c[i] = FENCE /\ (i = 1 \/ c[i - 1] = NL)}

in_fenced_block(c, p) ==
    \E o \in fence_lines(c), k \in fence_lines(c) :
        /\ o < p /\ p < k
        /\ Cardinality({i \in fence_lines(c) : i < o}) % 2 = 0
        /\ \A i \in fence_lines(c) : ~(o < i /\ i < k)
        /\ k = Len(c) \/ c[k + 1] = NL

only_in_fenced_blocks(c) ==
    \A p \in 1..Len(c) : c[p] \in {TextPath, CwdName, Url} => in_fenced_block(c, p)

\* C18, as stated: a path or URL that occurs only inside a fenced block of
\* the user message is never included: for such a message the parser returns
\* content and files equal to the input's.
C18_IgnoresFencedBlocks_AsStated ==
    (fnpc = "done" /\ only_in_fenced_blocks(fnIn.content)) =>
        /\ ~fnOut.raised
        /\ fnOut.msg = fnIn

IsPrefix(s, t) == Len(s) <= Len(t) /\ SubSeq(t, 1, Len(s)) = s

\* C19: the parser leaves its input message as it is and only appends: the
\* returned message's content is the input content followed by what was
\* inlined, set off by a blank line, and its files are the input files
\* followed by the collected file references; nothing else differs.
C19_OnlyAppends ==
    /\ []((fnpc = "done" /\ ~fnOut.raised) =>
             /\ IsPrefix(fnIn.content, fnOut.msg.content)
             /\ IsPrefix(fnIn.files, fnOut.msg.files)
             /\ fnOut.msg.role = fnIn.role
             /\ fnOut.msg.pinned = fnIn.pinned
             /\ Len(fnOut.msg.content) > Len(fnIn.content) =>
                    /\ fnOut.msg.content[Len(fnIn.content) + 1] = NL
                    /\ fnOut.msg.content[Len(fnIn.content) + 2] = NL)
    /\ [][fnIn' = fnIn]_vars

\* a text file was inlined behind the content and a picture was added behind
\* the file the message came with
C19_Witness ==
    /\ fnpc = "done"
    /\ ~fnOut.raised
    /\ fnIn.content # <<>>
    /\ fnIn.files # <<>>
    /\ Len(fnOut.msg.content) > Len(fnIn.content) + 2
    /\ Len(fnOut.msg.files) > Len(fnIn.files)

\* C20, as stated: a file read that fails with an OS error, or a URL fetch
\* that fails, is skipped: the parser still returns a message and no exception
\* leaves it.
C20_SkipsIOErrors_AsStated ==
    fnpc = "done" => ~fnOut.raised

\* what _include_paths put behind the content and behind the files
appended_content == SubSeq(fnOut.msg.content, Len(fnIn.content) + 1, Len(fnOut.msg.content))
appended_files == SubSeq(fnOut.msg.files, Len(fnIn.files) + 1, Len(fnOut.msg.files))

\* the words _include_paths looks at
scanned_words(c) == split_words(strip_codeblocks(c), <<>>)

\* C21: a candidate word that begins with a command prefix is never treated
\* as a path: the parser does not raise on it, no codeblock of such a word is
\* appended to the content and no such word is added to the files, whatever
\* the state of a file of that name; a message whose candidates are all of
\* this kind comes back as it was.
C21_CommandNeverPath ==
    fnpc = "done" =>
        /\ ~fnOut.raised =>
               /\ \A i \in 1..Len(appended_files) : ~is_command(appended_files[i])
               /\ \A i \in 1..(Len(appended_content) - 1) :
                      ~(appended_content[i] = FENCE /\ appended_content[i + 1] = CmdPath)
        /\ LET ws == scanned_words(fnIn.content)
           IN (\A i \in 1..Len(ws) : is_candidate(ws[i], fnEnv) => is_command(ws[i])) =>
                  (~fnOut.raised /\ fnOut.msg = fnIn)

\* a command word whose file exists and is text stands next to a path: the
\* path is inlined, the command word is not
C21_Witness ==
    /\ fnpc = "done"
    /\ ~fnOut.raised
    /\ ~fnEnv.fresh
    /\ fnEnv.files[CmdPath] = "text"
    /\ fnIn.content = <<CmdPath, NL, TextPath>>
    /\ appended_content = <<NL, NL>> \o codeblock(<<TextPath>>, "T")

=============================================================================
